---- MODULE Spec2Model ----
(***************************************************************************)
(* Model of src/pdfcompressor.py: one run of the Streamlit script that     *)
(* rasterizes every page of an uploaded PDF, re-encodes it as JPEG,        *)
(* rebuilds a PDF from the images, reports the size reduction, previews    *)
(* the first pages and offers the result for download.                     *)
(*                                                                         *)
(* The script calls PyMuPDF (fitz) and Pillow.  A call that can raise is   *)
(* modelled by two outcomes, the normal one and the exception; where the   *)
(* outcome is fixed by the library's contract (an empty stream cannot be   *)
(* opened, a document without pages cannot be saved, a page index beyond   *)
(* the page count cannot be loaded, a pixmap covers the scaled page        *)
(* rectangle rounded outward to whole pixels) the contract is modelled.    *)
(***************************************************************************)
EXTENDS Integers, Sequences, FiniteSets, TLC

VARIABLES
    pc,                 \* position of the script
    uploaded_file,      \* line 25: [name, size, valid, pages]
    compression_level,  \* line 27: the radio's selection
    image_quality, dpi, \* lines 37-45
    input_pdf,          \* line 47
    output_pdf,         \* line 48
    progress,           \* line 49 / 69: last fraction given to the bar
    page_number,        \* line 52
    optimized_bytes,    \* line 71
    original_size, compressed_size, reduction,   \* lines 76-78
    orig_doc, comp_doc, \* lines 86-87
    num_pages, i,       \* lines 89-90
    previews,           \* lines 93-97: the pairs shown so far
    warning,            \* line 101
    download,           \* lines 104-109
    error               \* the uncaught exception that stopped the script

vars == <<pc, uploaded_file, compression_level, image_quality, dpi, input_pdf,
          output_pdf, progress, page_number, optimized_bytes, original_size,
          compressed_size, reduction, orig_doc, comp_doc, num_pages, i,
          previews, warning, download, error>>

----------------------------------------------------------------------------
(* Bounds of the model *)

MaxPages == 6        \* pages of an uploaded document: 0..MaxPages
MaxBytes == 2        \* byte counts of a run: 1..MaxBytes (0: the empty upload)
MaxMetricBytes == 10 \* byte counts the reduction formula is applied to

FileNames == {"a.pdf", "scan.pdf"}

\* Page sizes in points (width, height): US Letter, A4 rounded to whole
\* points, and a small page whose scaled size falls on a half pixel.
PageSizes == << <<612, 792>>, <<595, 842>>, <<9, 45>> >>

----------------------------------------------------------------------------
(* Values *)

Min(a, b) == IF a < b THEN a ELSE b

\* An uploaded document with n pages; page k carries content k and the size
\* PageSizes[((k + first) mod |PageSizes|) + 1].
PagesOf(n, first) ==
    [k \in 1..n |->
        [id |-> k,
         w  |-> PageSizes[((k + first) % Len(PageSizes)) + 1][1],
         h  |-> PageSizes[((k + first) % Len(PageSizes)) + 1][2]]]

NoDoc   == [bound |-> FALSE, closed |-> FALSE, pages |-> <<>>]
NoBytes == [set |-> FALSE, size |-> 0, pages |-> <<>>]
NoFile  == [name |-> "", size |-> 0, valid |-> FALSE, pages |-> <<>>]
NoError == [raised |-> FALSE, at |-> "", page |-> 0 - 1]
NoDownload == [offered |-> FALSE, data |-> NoBytes, file_name |-> ""]

\* Python's float results are kept as exact fractions n/d; d = 0 stands for
\* ZeroDivisionError.
Unset == [n |-> 0, d |-> 1]
IsZeroDivisionError(r) == r.d = 0

\* a / b  (true division of two ints)
TrueDiv(a, b) == IF b = 0 THEN [n |-> 0, d |-> 0] ELSE [n |-> a, d |-> b]
\* r * k
Times(r, k) == IF IsZeroDivisionError(r) THEN r ELSE [n |-> r.n * k, d |-> r.d]

----------------------------------------------------------------------------
(* Lines 27-45: the compression level and its settings *)

HighQuality == "High Quality (Low Compression)"
Balanced    == "Balanced (Recommended)"
Aggressive  == "Smallest Size (Aggressive Compression)"
Levels      == <<HighQuality, Balanced, Aggressive>>

\* st.radio(..., index=1): the option selected before the user touches it
DefaultLevel == Levels[1 + 1]

\* word in compression_level, for the two words the script tests
In(word, level) ==
    \/ word = "High Quality" /\ level = HighQuality
    \/ word = "Balanced" /\ level = Balanced

Settings(level) ==
    IF In("High Quality", level) THEN [image_quality |-> 90, dpi |-> 150]
    ELSE IF In("Balanced", level) THEN [image_quality |-> 70, dpi |-> 120]
    ELSE [image_quality |-> 50, dpi |-> 100]

----------------------------------------------------------------------------
(* The library calls of the compression loop *)

\* len(pdf_bytes) and the document the bytes hold
pdf_bytes == [size |-> uploaded_file.size, valid |-> uploaded_file.valid,
              pages |-> uploaded_file.pages]

\* fitz.open(stream=..., filetype="pdf") raises on an empty stream and on
\* bytes that are no PDF
CanOpen(bytes) == bytes.size > 0 /\ bytes.valid

OpenDoc(pages) == [bound |-> TRUE, closed |-> FALSE, pages |-> pages]

Close(doc) == [doc EXCEPT !.closed = TRUE]

IsOpen(doc) == doc.bound /\ ~doc.closed

\* The least integer >= num/den - 1/1000: MuPDF rounds the right and bottom
\* edge of the scaled page rectangle up to the pixel grid, with a tolerance
\* of 0.001 pixel (fz_round_rect).
CeilTol(num, den) == 0 - ((0 - (1000 * num - den)) \div (1000 * den))

\* page.get_pixmap(dpi=dpi): the page scaled by dpi/72
GetPixmap(page, res) ==
    [src    |-> page.id,
     width  |-> CeilTol(page.w * res, 72),
     height |-> CeilTol(page.h * res, 72)]

\* Image.frombytes("RGB", [pix.width, pix.height], pix.samples) and
\* img.save(img_bytes, format="JPEG", quality=image_quality, optimize=True)
SaveJpeg(pix, quality) ==
    [src |-> pix.src, width |-> pix.width, height |-> pix.height,
     quality |-> quality]

\* fitz.Rect(0, 0, pix.height, pix.width): width and height exchanged
RectSwapped(pix) == [width |-> pix.height - 0, height |-> pix.width - 0]

\* rect = fitz.Rect(0, 0, pix.width, pix.height)
Rect(pix) == [width |-> pix.width - 0, height |-> pix.height - 0]

\* new_page(pno=0, ...): the new page is put in front
NewPageFront(doc, rect, img) ==
    [doc EXCEPT !.pages =
        <<[w |-> rect.width, h |-> rect.height, img |-> img]>> \o @]

\* output_pdf.new_page(width=, height=) appends a page (pno = -1), and
\* new_page.insert_image(rect, stream=) places the image on it
NewPage(doc, rect, img) ==
    [doc EXCEPT !.pages =
        Append(@, [w |-> rect.width, h |-> rect.height, img |-> img])]

\* range(len(input_pdf) - 1): the loop stops one page early
RangeShort(n) == 0 .. (n - 2)

\* range(len(input_pdf))
Range(n) == 0 .. (n - 1)

\* output_pdf.tobytes() raises ValueError on a document with zero pages
CanSave(doc) == Len(doc.pages) >= 1

ToBytes(doc, size) == [set |-> TRUE, size |-> size, pages |-> doc.pages]

\* line 78 without its guard
ReductionUnguarded(osize, csize) ==
    Times(TrueDiv(osize - csize, osize), 100)

\* line 78
Reduction(osize, csize) ==
    IF osize > 0 THEN Times(TrueDiv(osize - csize, osize), 100) ELSE Unset

\* an exception swallowed by a handler: the script goes on
Swallowed == "compressing"

\* An exception nothing catches ends the script run
Uncaught == "failed"

Raise(at, page) == [raised |-> TRUE, at |-> at, page |-> page]

----------------------------------------------------------------------------
(* The run *)

Init ==
    /\ pc = "idle"
    /\ uploaded_file = NoFile
    /\ compression_level = DefaultLevel
    /\ image_quality = 0
    /\ dpi = 0
    /\ input_pdf = NoDoc
    /\ output_pdf = NoDoc
    /\ progress = Unset
    /\ page_number = 0
    /\ optimized_bytes = NoBytes
    /\ original_size = 0
    /\ compressed_size = 0
    /\ reduction = Unset
    /\ orig_doc = NoDoc
    /\ comp_doc = NoDoc
    /\ num_pages = 0
    /\ i = 0
    /\ previews = <<>>
    /\ warning = FALSE
    /\ download = NoDownload
    /\ error = NoError

\* line 27: the user picks another compression level
SelectLevel ==
    /\ pc = "idle"
    /\ \E level \in {Levels[k] : k \in 1..Len(Levels)} :
          /\ level # compression_level
          /\ compression_level' = level
    /\ UNCHANGED <<pc, uploaded_file, image_quality, dpi, input_pdf,
                   output_pdf, progress, page_number, optimized_bytes,
                   original_size, compressed_size, reduction, orig_doc,
                   comp_doc, num_pages, i, previews, warning, download, error>>

\* lines 25, 33-45: a file is uploaded, its bytes are read, the settings
\* are chosen
Upload ==
    /\ pc = "idle"
    /\ \E name \in FileNames, size \in 0..MaxBytes, valid \in BOOLEAN,
          n \in 0..MaxPages, first \in 0..(Len(PageSizes) - 1) :
          /\ (size = 0 \/ ~valid) => (n = 0 /\ first = 0)
          /\ size = 0 => ~valid
          /\ n = 0 => first = 0
          /\ uploaded_file' = [name |-> name, size |-> size, valid |-> valid,
                               pages |-> PagesOf(n, first)]
    /\ image_quality' = Settings(compression_level).image_quality
    /\ dpi' = Settings(compression_level).dpi
    /\ pc' = "loaded"
    /\ UNCHANGED <<compression_level, input_pdf, output_pdf, progress,
                   page_number, optimized_bytes, original_size,
                   compressed_size, reduction, orig_doc, comp_doc, num_pages,
                   i, previews, warning, download, error>>

\* lines 47-49
Open ==
    /\ pc = "loaded"
    /\ IF CanOpen(pdf_bytes)
       THEN /\ input_pdf' = OpenDoc(pdf_bytes.pages)
            /\ output_pdf' = OpenDoc(<<>>)
            /\ progress' = TrueDiv(0, 1)
            /\ pc' = "compressing"
            /\ UNCHANGED error
       ELSE /\ error' = Raise("open", 0 - 1)
            /\ pc' = Uncaught
            /\ UNCHANGED <<input_pdf, output_pdf, progress>>
    /\ page_number' = 0
    /\ UNCHANGED <<uploaded_file, compression_level, image_quality, dpi,
                   optimized_bytes, original_size, compressed_size, reduction,
                   orig_doc, comp_doc, num_pages, i, previews, warning,
                   download>>

\* lines 52-69: one pass of the loop body.  page_number is the index of the
\* page the pass works on; get_pixmap, frombytes or save may raise.
CompressPage ==
    /\ pc = "compressing"
    /\ page_number \in Range(Len(input_pdf.pages))
    /\ \/ LET page == input_pdf.pages[page_number + 1]
              pix  == GetPixmap(page, dpi)
              img_bytes == SaveJpeg(pix, image_quality)
              fraction == TrueDiv(page_number + 1, Len(input_pdf.pages))
          IN  /\ output_pdf' = NewPage(output_pdf, Rect(pix), img_bytes)
              /\ progress' = fraction
              /\ IF IsZeroDivisionError(fraction)
                 THEN /\ error' = Raise("progress", page_number)
                      /\ pc' = Uncaught
                      /\ UNCHANGED page_number
                 ELSE /\ page_number' = page_number + 1
                      /\ UNCHANGED <<pc, error>>
       \/ /\ error' = Raise("page", page_number)
          /\ pc' = Uncaught
          /\ UNCHANGED <<output_pdf, progress, page_number>>
    /\ UNCHANGED <<uploaded_file, compression_level, image_quality, dpi,
                   input_pdf, optimized_bytes, original_size, compressed_size,
                   reduction, orig_doc, comp_doc, num_pages, i, previews,
                   warning, download>>

\* lines 71-81: the loop is over; serialize, close, compute the metrics
Finish ==
    /\ pc = "compressing"
    /\ page_number \notin Range(Len(input_pdf.pages))
    /\ IF CanSave(output_pdf)
       THEN \E size \in 1..MaxBytes :
              /\ optimized_bytes' = ToBytes(output_pdf, size)
              /\ input_pdf' = Close(input_pdf)
              /\ output_pdf' = Close(output_pdf)
              /\ original_size' = pdf_bytes.size
              /\ compressed_size' = size
              /\ reduction' = Reduction(pdf_bytes.size, size)
              /\ IF IsZeroDivisionError(Reduction(pdf_bytes.size, size))
                 THEN /\ error' = Raise("reduction", 0 - 1)
                      /\ pc' = Uncaught
                 ELSE /\ pc' = "compressed"
                      /\ UNCHANGED error
       ELSE /\ error' = Raise("tobytes", 0 - 1)
            /\ pc' = Uncaught
            /\ UNCHANGED <<optimized_bytes, input_pdf, output_pdf,
                           original_size, compressed_size, reduction>>
    /\ UNCHANGED <<uploaded_file, compression_level, image_quality, dpi,
                   progress, page_number, orig_doc, comp_doc, num_pages, i,
                   previews, warning, download>>

----------------------------------------------------------------------------
(* Lines 84-101: the preview *)

\* len(orig_doc), without the limit of 5
NumPagesAll(doc) == Len(doc.pages)

\* min(5, len(orig_doc))
NumPages(doc) == Min(5, Len(doc.pages))

\* doc.load_page(k) raises ValueError when k is no page of doc
CanLoad(doc, k) == k \in Range(Len(doc.pages))

\* the image st.image shows for the original page k (0-based)
OrigImage(doc, k) ==
    [side |-> "Original", caption |-> k + 1, src |-> doc.pages[k + 1].id]

\* the image st.image shows for the compressed page k (0-based)
CompImage(doc, k) ==
    [side |-> "Compressed", caption |-> k + 1,
     src |-> doc.pages[k + 1].img.src]

\* a handler that raises again: the preview failure ends the run
OnPreviewExceptionFatal == "failed"

\* a handler that starts the preview over
OnPreviewExceptionRetry == "preview_open"

\* except Exception as e: st.warning(...); the script goes on to the
\* download button
OnPreviewException == "download"

\* line 84
StartPreview ==
    /\ pc = "compressed"
    /\ pc' = "preview_open"
    /\ UNCHANGED <<uploaded_file, compression_level, image_quality, dpi,
                   input_pdf, output_pdf, progress, page_number,
                   optimized_bytes, original_size, compressed_size, reduction,
                   orig_doc, comp_doc, num_pages, i, previews, warning,
                   download, error>>

\* lines 86-89: both documents are re-opened from their bytes; either open
\* may raise
PreviewOpen ==
    /\ pc = "preview_open"
    /\ \/ /\ orig_doc' = OpenDoc(pdf_bytes.pages)
          /\ comp_doc' = OpenDoc(optimized_bytes.pages)
          /\ num_pages' = NumPages(OpenDoc(pdf_bytes.pages))
          /\ pc' = "preview_loop"
          /\ UNCHANGED warning
       \/ /\ warning' = TRUE
          /\ pc' = OnPreviewException
          /\ UNCHANGED <<orig_doc, comp_doc, num_pages>>
       \/ /\ orig_doc' = OpenDoc(pdf_bytes.pages)
          /\ warning' = TRUE
          /\ pc' = OnPreviewException
          /\ UNCHANGED <<comp_doc, num_pages>>
    /\ i' = 0
    /\ UNCHANGED <<uploaded_file, compression_level, image_quality, dpi,
                   input_pdf, output_pdf, progress, page_number,
                   optimized_bytes, original_size, compressed_size, reduction,
                   previews, download, error>>

\* lines 90-97: one pass of the preview loop; load_page or get_pixmap may
\* raise on either document, and must raise for a page that does not exist
PreviewPage ==
    /\ pc = "preview_loop"
    /\ i \in Range(num_pages)
    /\ \/ /\ CanLoad(orig_doc, i)
          /\ CanLoad(comp_doc, i)
          /\ previews' = previews \o
                <<OrigImage(orig_doc, i), CompImage(comp_doc, i)>>
          /\ i' = i + 1
          /\ UNCHANGED <<pc, warning>>
       \/ /\ warning' = TRUE
          /\ pc' = OnPreviewException
          /\ UNCHANGED <<previews, i>>
       \/ /\ CanLoad(orig_doc, i)
          /\ previews' = Append(previews, OrigImage(orig_doc, i))
          /\ warning' = TRUE
          /\ pc' = OnPreviewException
          /\ UNCHANGED i
    /\ UNCHANGED <<uploaded_file, compression_level, image_quality, dpi,
                   input_pdf, output_pdf, progress, page_number,
                   optimized_bytes, original_size, compressed_size, reduction,
                   orig_doc, comp_doc, num_pages, download, error>>

\* lines 98-99
PreviewClose ==
    /\ pc = "preview_loop"
    /\ i \notin Range(num_pages)
    /\ orig_doc' = Close(orig_doc)
    /\ comp_doc' = Close(comp_doc)
    /\ pc' = "download"
    /\ UNCHANGED <<uploaded_file, compression_level, image_quality, dpi,
                   input_pdf, output_pdf, progress, page_number,
                   optimized_bytes, original_size, compressed_size, reduction,
                   num_pages, i, previews, warning, download, error>>

----------------------------------------------------------------------------
(* Lines 104-109: the download button *)

\* f"compressed_{uploaded_file.name}"
DownloadName(name) == "compressed_" \o name

Download ==
    /\ pc = "download"
    /\ download' = [offered |-> TRUE, data |-> optimized_bytes,
                    file_name |-> DownloadName(uploaded_file.name)]
    /\ pc' = "done"
    /\ UNCHANGED <<uploaded_file, compression_level, image_quality, dpi,
                   input_pdf, output_pdf, progress, page_number,
                   optimized_bytes, original_size, compressed_size, reduction,
                   orig_doc, comp_doc, num_pages, i, previews, warning, error>>

----------------------------------------------------------------------------
(* Specifications *)

\* the steps the script takes by itself once a file is uploaded
Run ==
    \/ Open
    \/ CompressPage
    \/ Finish
    \/ StartPreview
    \/ PreviewOpen
    \/ PreviewPage
    \/ PreviewClose
    \/ Download

Next ==
    \/ SelectLevel
    \/ Upload
    \/ Run

Spec == Init /\ [][Next]_vars

\* The script is one thread running top to bottom: a started run keeps
\* taking steps until it ends.
FairSpec == Spec /\ WF_vars(Run)

----------------------------------------------------------------------------
(* The reduction formula on its own, applied to every pair of byte counts *)

MetricsInit ==
    /\ pc = "metrics"
    /\ original_size \in 0..MaxMetricBytes
    /\ compressed_size \in 0..MaxMetricBytes
    /\ uploaded_file = NoFile
    /\ compression_level = DefaultLevel
    /\ image_quality = 0
    /\ dpi = 0
    /\ input_pdf = NoDoc
    /\ output_pdf = NoDoc
    /\ progress = Unset
    /\ page_number = 0
    /\ optimized_bytes = NoBytes
    /\ reduction = Unset
    /\ orig_doc = NoDoc
    /\ comp_doc = NoDoc
    /\ num_pages = 0
    /\ i = 0
    /\ previews = <<>>
    /\ warning = FALSE
    /\ download = NoDownload
    /\ error = NoError

\* line 78
ComputeReduction ==
    /\ pc = "metrics"
    /\ reduction' = Reduction(original_size, compressed_size)
    /\ IF IsZeroDivisionError(Reduction(original_size, compressed_size))
       THEN /\ error' = Raise("reduction", 0 - 1)
            /\ pc' = Uncaught
       ELSE /\ pc' = "metrics_done"
            /\ UNCHANGED error
    /\ UNCHANGED <<uploaded_file, compression_level, image_quality, dpi,
                   input_pdf, output_pdf, progress, page_number,
                   optimized_bytes, original_size, compressed_size, orig_doc,
                   comp_doc, num_pages, i, previews, warning, download>>

MetricsSpec == MetricsInit /\ [][ComputeReduction]_vars

----------------------------------------------------------------------------
(* Properties *)

\* C1: once the loop has finished and the rebuilt document is serialized,
\* it has as many pages as the source document, and every source page is
\* the source of exactly one of its pages.
PageCountPreserved ==
    optimized_bytes.set =>
        /\ Len(optimized_bytes.pages) = Len(pdf_bytes.pages)
        /\ \A k \in 1..Len(pdf_bytes.pages) :
              Cardinality({m \in 1..Len(optimized_bytes.pages) :
                  optimized_bytes.pages[m].img.src = pdf_bytes.pages[k].id}) = 1

PageCountPreservedWitness ==
    /\ pc = "compressed"
    /\ optimized_bytes.set
    /\ Len(pdf_bytes.pages) = 3
    /\ Len(optimized_bytes.pages) = 3

\* output page k comes from input page k, in the loop and in the result
OrderInv ==
    /\ output_pdf.bound =>
          /\ Len(output_pdf.pages) <= Len(input_pdf.pages)
          /\ \A k \in 1..Len(output_pdf.pages) :
                output_pdf.pages[k].img.src = input_pdf.pages[k].id
    /\ pc = "compressing" => Len(output_pdf.pages) = page_number
    /\ optimized_bytes.set =>
          \A k \in 1..Len(optimized_bytes.pages) :
              optimized_bytes.pages[k].img.src = pdf_bytes.pages[k].id

\* a step that changes the output appends the page of index page_number
OrderStep ==
    output_pdf'.pages # output_pdf.pages =>
        /\ Len(output_pdf'.pages) = Len(output_pdf.pages) + 1
        /\ SubSeq(output_pdf'.pages, 1, Len(output_pdf.pages)) = output_pdf.pages
        /\ output_pdf'.pages[Len(output_pdf'.pages)].img.src = page_number + 1
        /\ page_number' = page_number + 1

\* C2: the k-th page of the rebuilt document holds the image made from the
\* k-th page of the input, at every moment of the loop and in the serialized
\* result; pages are taken in ascending order, one per pass, and each new
\* page is put at the end of the output.
PageOrderPreserved == []OrderInv /\ [][OrderStep]_vars

PageOrderPreservedWitness ==
    /\ optimized_bytes.set
    /\ Len(optimized_bytes.pages) = 4
    /\ optimized_bytes.pages[4].img.src = 4
    /\ optimized_bytes.pages[1].img.src = 1

\* C3: when the input cannot be opened or a page fails in the loop, the run
\* ends there: no output bytes, no metrics, no download, no preview, no
\* warning.
FatalErrorSoleOutcome ==
    (error.raised \/ pc = "failed") =>
        /\ error.raised
        /\ pc = "failed"
        /\ ~optimized_bytes.set
        /\ ~download.offered
        /\ original_size = 0 /\ compressed_size = 0 /\ reduction = Unset
        /\ previews = <<>>
        /\ ~warning
        /\ ~orig_doc.bound /\ ~comp_doc.bound
        /\ ~ENABLED Next

FatalErrorSoleOutcomeWitness ==
    /\ pc = "failed"
    /\ error.at = "page"
    /\ error.page = 2
    /\ Len(output_pdf.pages) = 2

\* after a warning the run is at the download button, or past it
PreviewInv ==
    /\ warning =>
          /\ pc \in {"download", "done"}
          /\ ~error.raised
          /\ optimized_bytes.set
    /\ pc = "download" => ENABLED Download
    /\ pc = "done" =>
          /\ download.offered
          /\ download.data = optimized_bytes
          /\ download.file_name = "compressed_" \o uploaded_file.name

\* no step after the metrics changes the bytes or the metrics
PreviewStep ==
    pc \in {"compressed", "preview_open", "preview_loop", "download"} =>
        UNCHANGED <<optimized_bytes, original_size, compressed_size, reduction>>

\* C4: a failure in the preview becomes a warning; the output bytes and the
\* metrics are not touched by the preview, and the download is offered with
\* these bytes under the name compressed_<name of the upload>.
PreviewFailureNonFatal == []PreviewInv /\ [][PreviewStep]_vars

PreviewFailureNonFatalWitness ==
    /\ pc = "done"
    /\ warning
    /\ Len(previews) = 3
    /\ download.file_name = "compressed_scan.pdf"

\* C5: when the run on a document with pages has ended, in Done or in
\* Failed, every document that was opened is closed.  (The run on a document
\* without pages is the subject of C10.)
HandlesReleased ==
    (pc \in {"done", "failed"} /\ Len(pdf_bytes.pages) >= 1) =>
        /\ ~IsOpen(input_pdf)
        /\ ~IsOpen(output_pdf)
        /\ ~IsOpen(orig_doc)
        /\ ~IsOpen(comp_doc)

\* the state of the run, by the position of the script
RunState ==
    CASE pc = "idle" -> "Idle"
      [] pc = "loaded" -> "Loaded"
      [] pc = "compressing" -> "Compressing"
      [] pc = "compressed" -> "Compressed"
      [] pc \in {"preview_open", "preview_loop", "download"} -> "Previewing"
      [] pc = "done" -> "Done"
      [] pc = "failed" -> "Failed"

Chain == <<"Idle", "Loaded", "Compressing", "Compressed", "Previewing", "Done">>

Rank(st) == CHOOSE k \in 1..Len(Chain) : Chain[k] = st

ChainStep ==
    IF RunState' = "Failed"
    THEN RunState # "Done"
    ELSE /\ RunState # "Failed"
         /\ \/ RunState' = RunState
            \/ Rank(RunState') = Rank(RunState) + 1

\* C6: the run goes through Idle, Loaded, Compressing, Compressed,
\* Previewing, Done in this order, one state at a time, or to Failed from a
\* state other than Done; Failed and Done are never left; and a run that is
\* Previewing reaches Done.
RunStateChain ==
    /\ [][ChainStep]_vars
    /\ (RunState = "Previewing") ~> (RunState = "Done")

RunStateChainWitness ==
    /\ RunState = "Done"
    /\ warning
    /\ previews # <<>>

\* exact fractions n/d, d > 0
RatMinus(a, b) == [n |-> a.n * b.d - b.n * a.d, d |-> a.d * b.d]
RatTimes(a, k) == [n |-> a.n * k, d |-> a.d]
RatEq(a, b) == a.d > 0 /\ b.d > 0 /\ a.n * b.d = b.n * a.d
RatLeq(a, k) == a.d > 0 /\ a.n <= k * a.d

\* C7: the reduction is (1 - compressedSize/originalSize) x 100 when
\* originalSize > 0, then negative when the compressed size is the larger
\* and never above 100; it is 0 when originalSize = 0; no division by zero.
ReductionFormula ==
    pc # "metrics" =>
        /\ pc = "metrics_done"
        /\ ~error.raised
        /\ ~IsZeroDivisionError(reduction)
        /\ original_size > 0 =>
              /\ RatEq(reduction,
                       RatTimes(RatMinus([n |-> 1, d |-> 1],
                                         [n |-> compressed_size,
                                          d |-> original_size]), 100))
              /\ RatLeq(reduction, 100)
              /\ compressed_size > original_size => reduction.n < 0
        /\ original_size = 0 => reduction.n = 0

ReductionFormulaWitness ==
    /\ pc = "metrics_done"
    /\ original_size = 4
    /\ compressed_size = 6
    /\ reduction.n < 0

\* C8: a preview that ends without a warning has shown min(5, pageCount)
\* pairs, for the pages 1..min(5, pageCount) in ascending order, pair k
\* showing page k of the original and page k of the rebuilt document; and
\* the page the loop is about to show exists in both documents.
PreviewPairs ==
    /\ (pc \in {"download", "done"} /\ ~warning) =>
          LET n == Len(pdf_bytes.pages)
              count == IF n < 5 THEN n ELSE 5
          IN  /\ Len(previews) = 2 * count
              /\ \A k \in 1..count :
                    /\ previews[2 * k - 1] =
                          [side |-> "Original", caption |-> k,
                           src |-> pdf_bytes.pages[k].id]
                    /\ previews[2 * k] =
                          [side |-> "Compressed", caption |-> k,
                           src |-> pdf_bytes.pages[k].id]
    /\ (pc = "preview_loop" /\ i \in Range(num_pages)) =>
          /\ i + 1 <= Len(orig_doc.pages)
          /\ i + 1 <= Len(comp_doc.pages)

PreviewPairsWitness ==
    /\ pc = "done"
    /\ ~warning
    /\ Len(pdf_bytes.pages) = 6
    /\ Len(previews) = 10

\* num/den rounded to the nearest integer
Round(num, den) == (2 * num + den) \div (2 * den)

\* the resolution of the selected profile
TableDpi ==
    CASE compression_level = HighQuality -> 150
      [] compression_level = Balanced -> 120
      [] compression_level = Aggressive -> 100

\* C9 as stated: every output page made from a source page of W x H points
\* holds a raster of round(W*dpi/72) x round(H*dpi/72) pixels and measures
\* that many points, dpi being 150, 120 or 100 by profile.
RasterIsRounded ==
    output_pdf.bound =>
        \A k \in 1..Len(output_pdf.pages) :
            LET page == input_pdf.pages[output_pdf.pages[k].img.src]
                out  == output_pdf.pages[k]
            IN  /\ out.img.width = Round(page.w * TableDpi, 72)
                /\ out.img.height = Round(page.h * TableDpi, 72)
                /\ out.w = out.img.width
                /\ out.h = out.img.height

\* m is the least integer with m >= num/den - 1/1000
Covers(m, num, den) ==
    /\ 1000 * den * m >= 1000 * num - den
    /\ 1000 * den * (m - 1) < 1000 * num - den

RasterInv ==
    /\ pc # "idle" => dpi = TableDpi
    /\ output_pdf.bound =>
        \A k \in 1..Len(output_pdf.pages) :
            LET page == input_pdf.pages[output_pdf.pages[k].img.src]
                out  == output_pdf.pages[k]
            IN  /\ Covers(out.img.width, page.w * TableDpi, 72)
                /\ Covers(out.img.height, page.h * TableDpi, 72)
                /\ out.w = out.img.width
                /\ out.h = out.img.height
                /\ (page.w = 612 /\ page.h = 792 /\ compression_level = Balanced)
                      => (out.w = 1020 /\ out.h = 1320)

\* C9 (amended): the raster of a W x H point page is the least whole number
\* of pixels that covers W*dpi/72 - 0.001 by H*dpi/72 - 0.001, which is
\* ceil(W*dpi/72) x ceil(H*dpi/72) for whole-point page sizes; the output
\* page measures that many points; dpi is 150, 120 or 100 by profile,
\* Balanced being the selection a run starts with; a 612x792 page under
\* Balanced gives 1020x1320.
RasterCoversPage == (compression_level = Balanced) /\ []RasterInv

RasterCoversPageWitness ==
    /\ compression_level = Aggressive
    /\ output_pdf.bound
    /\ Len(output_pdf.pages) >= 1
    /\ input_pdf.pages[1].w = 595
    /\ output_pdf.pages[1].img.width = 827
    /\ output_pdf.pages[1].w = 827
    /\ output_pdf.pages[1].h = 1170

\* C10: a document with 0 pages is no failure: no progress fraction is
\* computed, the rebuilt document is serialized with 0 pages, the metrics
\* are computed, the run does not fail.
ZeroPagesNotAFailure ==
    (input_pdf.bound /\ Len(input_pdf.pages) = 0) =>
        /\ progress = TrueDiv(0, 1)
        /\ pc # "failed"
        /\ ~error.raised
        /\ pc # "compressing" =>
              /\ optimized_bytes.set
              /\ Len(optimized_bytes.pages) = 0
              /\ compressed_size = optimized_bytes.size

====
